---- MODULE Spec2Model ----
(***************************************************************************)
(* backend/app.py: a Flask application with one view, home(), registered   *)
(* on "/" and served by app.run(debug=True) when run as the main program.  *)
(*                                                                         *)
(* What app.py asks of Flask and Werkzeug is modelled by what those calls  *)
(* do: Flask(__name__) creates the URL map with the static rule,           *)
(* @app.route("/") adds a rule with the default methods, and               *)
(* app.run(debug=True) binds the port and serves the application wrapped   *)
(* in Werkzeug's DebuggedApplication, under the reloader.                  *)
(*                                                                         *)
(* A path is the sequence of its segments: "/" is << >>, "/static/x" is    *)
(* <<"static", "x">>.                                                      *)
(***************************************************************************)
EXTENDS Naturals, Sequences, FiniteSets

VARIABLES
    state,          \* "NOT_RUNNING" or "RUNNING" (listening on the port)
    exitCode,       \* << >> while the process has not exited, else <<status>>
    mainProgram,    \* __name__ == "__main__"
    environ,        \* os.environ, as far as app.run reads it
    portInUse,      \* another listener occupies the port
    debug,          \* app.debug
    url_map,        \* app.url_map: the route table
    view_functions, \* app.view_functions: the endpoints with a view
    frames,         \* DebuggedApplication.frames: ids of the console frames
    failed,         \* DebuggedApplication._failed_pin_auth
    answered        \* << >>, or <<[req, resp]>>: the latest exchange

vars == <<state, exitCode, mainProgram, environ, portInUse, debug, url_map,
          view_functions, frames, failed, answered>>

----------------------------------------------------------------------------
\* Bounds of the model.

\* _failed_pin_auth grows with every failed PIN; the model stops counting here.
MaxFailed == 12

NoExit == << >>

----------------------------------------------------------------------------
\* Requests and responses.

Root == << >>
ConsolePath == <<"console">>

Methods == {"GET", "HEAD", "OPTIONS", "POST", "PUT", "DELETE"}

Paths == {Root, <<"missing">>, ConsolePath, <<"static", "x">>}

\* Query strings: none, an ordinary one, and the commands of the debugger
\* (each with the debugger's secret, which the console page carries).
DebuggerQueries ==
    {"__debugger__=yes&cmd=resource&f=style.css",
     "__debugger__=yes&cmd=pinauth&pin=right",
     "__debugger__=yes&cmd=pinauth&pin=wrong"}

Queries == {"", "a=1"} \cup DebuggerQueries

\* The debugger's PIN cookie of a request: none, the one a successful
\* authentication sets, or one with a stale PIN hash.
Cookies == {"none", "valid", "stale"}

PinAuthQueries ==
    {"__debugger__=yes&cmd=pinauth&pin=right",
     "__debugger__=yes&cmd=pinauth&pin=wrong"}

\* A request: method, path, query string and, of its headers, the PIN
\* cookie.  Nothing served here reads a request body, and only pin_auth
\* reads the cookie, so requests are modelled without a body and the other
\* requests without a cookie.
Requests ==
    {r \in [method : Methods, path : Paths, query : Queries, pincookie : Cookies] :
        r.pincookie # "none" => r.query \in PinAuthQueries}

Response(status, body) == [status |-> status, body |-> body]

Greeting == "Welcome to the Cleaner Matching System!"

----------------------------------------------------------------------------
\* app = Flask(__name__): the URL map starts with the static rule, whose
\* methods are the defaults.

DefaultMethodsWithPost == {"GET", "HEAD", "OPTIONS", "POST"}

\* A rule registered without methods= takes GET; HEAD is added with GET and
\* OPTIONS is provided automatically.
DefaultMethods == {"GET", "HEAD", "OPTIONS"}

StaticRule ==
    [rule |-> <<"static", "<path:filename>">>, endpoint |-> "static",
     methods |-> DefaultMethods]

\* @app.route("/") def home
HomeRule == [rule |-> Root, endpoint |-> "home", methods |-> DefaultMethods]

RuleMatchesPrefix(rule, path) ==
    \/ rule = Root
    \/ Len(path) >= Len(rule) /\ Len(rule) > 0 /\ path[1] = rule[1]

\* Whether a rule matches a path: segment by segment, the path converter
\* taking the one or more segments that remain.
RuleMatches(rule, path) ==
    IF rule # << >> /\ rule[Len(rule)] = "<path:filename>"
    THEN /\ Len(path) >= Len(rule)
         /\ \A i \in 1 .. (Len(rule) - 1) : path[i] = rule[i]
    ELSE path = rule

\* def home(): return "Welcome to the Cleaner Matching System!"
home == Response(200, Greeting)

\* The static view sends a file of the static folder beside app.py; the
\* repository has none, so it raises NotFound.
send_static_file == Response(404, "Not Found")

view(endpoint) == IF endpoint = "home" THEN home ELSE send_static_file

\* Flask.wsgi_app: match the path, then the method, then dispatch.
wsgi_app(map, views, req) ==
    LET rules == {r \in map : RuleMatches(r.rule, req.path)} IN
    IF rules = {} THEN Response(404, "Not Found")
    ELSE IF \A r \in rules : req.method \notin r.methods
    THEN Response(405, "Method Not Allowed")
    ELSE LET r == CHOOSE r \in rules : req.method \in r.methods IN
         IF req.method = "OPTIONS" THEN Response(200, "")
         ELSE IF r.endpoint \notin views
         THEN Response(500, "Internal Server Error")
         ELSE view(r.endpoint)

\* DebuggedApplication._fail_pin_auth
fail_pin_auth(nfailed) == IF nfailed < MaxFailed THEN nfailed + 1 ELSE nfailed

\* DebuggedApplication.pin_auth: [resp, failed]
pin_auth(req, nfailed) ==
    IF req.pincookie = "stale"
    THEN [resp |-> Response(200, "auth: false, exhausted: false"),
          failed |-> fail_pin_auth(nfailed)]
    ELSE IF req.pincookie = "valid"
    THEN [resp |-> Response(200, "auth: true, exhausted: false"), failed |-> nfailed]
    ELSE IF nfailed > 10
    THEN [resp |-> Response(200, "auth: false, exhausted: true"), failed |-> nfailed]
    ELSE IF req.query = "__debugger__=yes&cmd=pinauth&pin=right"
    THEN [resp |-> Response(200, "auth: true, exhausted: false"), failed |-> 0]
    ELSE [resp |-> Response(200, "auth: false, exhausted: false"),
          failed |-> fail_pin_auth(nfailed)]

\* DebuggedApplication.__call__: the debugger answers its own commands and
\* its console path, whatever the method, and passes the rest to the
\* application.  [resp, frames, failed]
DebuggedApplication(map, views, req, frms, nfailed) ==
    IF req.query = "__debugger__=yes&cmd=resource&f=style.css"
    THEN [resp |-> Response(200, "style.css"), frames |-> frms, failed |-> nfailed]
    ELSE IF req.query \in DebuggerQueries
    THEN LET a == pin_auth(req, nfailed) IN
         [resp |-> a.resp, frames |-> frms, failed |-> a.failed]
    ELSE IF req.path = ConsolePath
    THEN [resp |-> Response(200, "console"), frames |-> frms \cup {0},
          failed |-> nfailed]
    ELSE [resp |-> wsgi_app(map, views, req), frames |-> frms, failed |-> nfailed]

\* The response object leaves the body out of the answer to a HEAD request.
SendResponse(req, resp) ==
    IF req.method = "HEAD" THEN Response(resp.status, "") ELSE resp

\* What the server answers to req, and the debugger state it leaves, given
\* the state it is in.
Serve(dbg, map, views, req, frms, nfailed) ==
    LET out == IF dbg THEN DebuggedApplication(map, views, req, frms, nfailed)
               ELSE [resp |-> wsgi_app(map, views, req), frames |-> frms,
                     failed |-> nfailed] IN
    [resp |-> SendResponse(req, out.resp), frames |-> out.frames,
     failed |-> out.failed]

----------------------------------------------------------------------------
\* app.run(debug=True)

Environs == [FLASK_DEBUG : {"0", "1"}, FLASK_RUN_FROM_CLI : BOOLEAN]

\* get_debug_flag()
EnvDebug(env) == env.FLASK_DEBUG = "1"

RunDebugFromEnv(env) == EnvDebug(env)

\* run(debug=True): the argument, being given, overrides the environment.
RunDebug(env) == TRUE

BindAlways(busy) == "listening"

\* server_bind() on the port
BindOutcome(busy) == IF busy THEN "EADDRINUSE" ELSE "listening"

ListeningOrNot == TRUE

\* serve_forever() accepts connections while the socket listens.
Listening == state = "RUNNING"

----------------------------------------------------------------------------

Init ==
    /\ state = "NOT_RUNNING"
    /\ exitCode = NoExit
    /\ mainProgram \in BOOLEAN
    /\ environ \in Environs
    /\ portInUse \in BOOLEAN
    /\ debug = EnvDebug(environ)
    /\ url_map = {StaticRule, HomeRule}
    /\ view_functions = {"static", "home"}
    /\ frames = {}
    /\ failed = 0
    /\ answered = << >>

\* app.run() under `flask run`: the call is ignored and the script ends.
RunIgnored ==
    /\ mainProgram /\ state = "NOT_RUNNING" /\ exitCode = NoExit
    /\ environ.FLASK_RUN_FROM_CLI
    /\ exitCode' = <<0>>
    /\ UNCHANGED <<state, mainProgram, environ, portInUse, debug, url_map,
                   view_functions, frames, failed, answered>>

\* app.run(debug=True) and the bind fails: the error is printed to standard
\* error and the process exits with status 1.
BindFailure ==
    /\ mainProgram /\ state = "NOT_RUNNING" /\ exitCode = NoExit
    /\ ~environ.FLASK_RUN_FROM_CLI
    /\ BindOutcome(portInUse) = "EADDRINUSE"
    /\ debug' = RunDebug(environ)
    /\ exitCode' = <<1>>
    /\ UNCHANGED <<state, mainProgram, environ, portInUse, url_map,
                   view_functions, frames, failed, answered>>

\* app.run(debug=True) and the socket listens.
Startup ==
    /\ mainProgram /\ state = "NOT_RUNNING" /\ exitCode = NoExit
    /\ ~environ.FLASK_RUN_FROM_CLI
    /\ BindOutcome(portInUse) = "listening"
    /\ debug' = RunDebug(environ)
    /\ state' = "RUNNING"
    /\ UNCHANGED <<exitCode, mainProgram, environ, portInUse, url_map,
                   view_functions, frames, failed, answered>>

\* One request, from accept to the response sent.
HandleRequest(req) ==
    /\ Listening
    /\ LET out == Serve(debug, url_map, view_functions, req, frames, failed) IN
       /\ answered' = <<[req |-> req, resp |-> out.resp]>>
       /\ frames' = out.frames
       /\ failed' = out.failed
    /\ UNCHANGED <<state, exitCode, mainProgram, environ, portInUse, debug,
                   url_map, view_functions>>

\* The reloader (use_reloader follows debug) restarts the serving process on
\* a source change; the listening socket is kept, the debugger starts anew.
Reload ==
    /\ state = "RUNNING" /\ debug
    /\ frames' = {}
    /\ failed' = 0
    /\ UNCHANGED <<state, exitCode, mainProgram, environ, portInUse, debug,
                   url_map, view_functions, answered>>

\* The process ends: a signal (status 0 after Ctrl+C) or a crash.  The
\* debugger's state goes with the process.
Terminate ==
    /\ state = "RUNNING"
    /\ state' = "NOT_RUNNING"
    /\ exitCode' \in {<<0>>, <<1>>}
    /\ frames' = {}
    /\ failed' = 0
    /\ UNCHANGED <<mainProgram, environ, portInUse, debug, url_map,
                   view_functions, answered>>

Request == \E req \in Requests : HandleRequest(req)

Next ==
    \/ RunIgnored
    \/ BindFailure
    \/ Startup
    \/ Request
    \/ Reload
    \/ Terminate

Spec == Init /\ [][Next]_vars

TypeOK ==
    /\ state \in {"NOT_RUNNING", "RUNNING"}
    /\ exitCode \in {NoExit, <<0>>, <<1>>}
    /\ state = "RUNNING" => exitCode = NoExit
    /\ debug \in BOOLEAN
    /\ frames \subseteq {0}
    /\ failed \in 0 .. MaxFailed
    /\ Len(answered) <= 1

----------------------------------------------------------------------------
\* The latest exchange, while the server runs.

Served == state = "RUNNING" /\ answered # << >>
Req == answered[1].req
Resp == answered[1].resp

\* The response req would get from the server with this debugger state.
Answer(req, frms, nfailed) ==
    Serve(debug, url_map, view_functions, req, frms, nfailed).resp

UnderStatic(path) == Len(path) >= 2 /\ path[1] = "static"

----------------------------------------------------------------------------
\* C1: while the server is RUNNING, every request with method GET and path
\* "/" is answered with status 200 and exactly the greeting as its body.
C1_RootGetGreeting ==
    (Served /\ Req.method = "GET" /\ Req.path = Root)
        => Resp = Response(200, Greeting)

C4_MethodAndPathOnly ==
    state = "RUNNING" =>
        \A r1, r2 \in Requests :
            (r1.method = r2.method /\ r1.path = r2.path)
                => Answer(r1, frames, failed) = Answer(r2, frames, failed)

\* C5: the same GET "/" request issued again receives the response it
\* received before.
C5_RepeatedRootGetIdentical ==
    [][(/\ Served
        /\ Req.method = "GET" /\ Req.path = Root
        /\ HandleRequest(Req))
           => answered'[1].resp = Resp]_vars

\* C6: when startup binds a port another listener occupies, the process is
\* never RUNNING, serves no request, and exits with a non-zero status.
C6_BindFailureNeverRuns ==
    (mainProgram /\ ~environ.FLASK_RUN_FROM_CLI /\ portInUse) =>
        /\ state = "NOT_RUNNING"
        /\ answered = << >>
        /\ exitCode \in {NoExit, <<1>>}

C6_Witness ==
    /\ mainProgram /\ ~environ.FLASK_RUN_FROM_CLI /\ portInUse
    /\ state = "NOT_RUNNING" /\ exitCode = <<1>>

\* C7: handling a request leaves the route table, the application object,
\* the process state and every other piece of server state unchanged.
C7_RequestChangesNothing ==
    [][(\E r \in Requests : HandleRequest(r))
          => UNCHANGED <<state, exitCode, debug, url_map, view_functions,
                         frames, failed>>]_vars

\* C8: the process is always NOT_RUNNING or RUNNING; it goes from
\* NOT_RUNNING to RUNNING only at startup, from RUNNING to NOT_RUNNING only
\* by ending, and a request is answered only in RUNNING.
C8_TwoStates ==
    /\ [](state \in {"NOT_RUNNING", "RUNNING"})
    /\ [][/\ (state = "NOT_RUNNING" /\ state' = "RUNNING")
                => (exitCode = NoExit /\ exitCode' = NoExit)
          /\ (state = "RUNNING" /\ state' = "NOT_RUNNING")
                => (exitCode = NoExit /\ exitCode' # NoExit)
          /\ (answered' # answered)
                => (state = "RUNNING" /\ state' = "RUNNING")]_vars

C8_Witness ==
    state = "NOT_RUNNING" /\ exitCode # NoExit /\ answered # << >>

\* C9: no request stops the server or changes the response to another
\* request: after any request the server is RUNNING, answers every request
\* as it did before, and answers GET "/" with 200 and the greeting.
C9_RequestsContained ==
    [][(\E r \in Requests : HandleRequest(r)) =>
          /\ state' = "RUNNING"
          /\ \A q \in Requests :
                /\ Answer(q, frames', failed') = Answer(q, frames, failed)
                /\ (q.method = "GET" /\ q.path = Root)
                      => Answer(q, frames', failed') = Response(200, Greeting)]_vars

\* C10: started as the main program, the server is RUNNING only with debug
\* mode enabled, whatever the environment says.
C10_RunningInDebug ==
    state = "RUNNING" => (mainProgram /\ debug)

C10_Witness ==
    state = "RUNNING" /\ environ.FLASK_DEBUG = "0" /\ answered # << >>

====
